---- MODULE Spec2Model ----
(***************************************************************************)
(* Model of src/data_entry_bot/main.py: one run of main().  The program is *)
(* sequential; every call into requests / os / pywinauto is a step whose   *)
(* outcome (normal return, or an exception of some class) is chosen by the *)
(* environment.  The editor is modelled by what the code's own comments    *)
(* say its keystrokes do (Ctrl+Shift+S opens the save dialog, the path and *)
(* ENTER save the buffer, an existing file raises an overwrite prompt that *)
(* Alt+Y confirms).                                                        *)
(***************************************************************************)
EXTENDS Integers, Sequences, FiniteSets, TLC

\* ---------------------------------------------------------------- bounds
MaxRecords == 3          \* longest record sequence the source returns
MaxStray == 1            \* editor windows already open before the run
MaxLive == 2             \* editor processes the machine lets the run keep open
MaxRerun == 2            \* longest record sequence of a batch that is run twice

\* ------------------------------------------------------ program constants
Limit == 10              \* fetch_posts(limit=10)
MaxAttempts == 3         \* launch_notepad_with_retry(max_attempts=3)

\* ------------------------------------------------------------ input data
\* The records the source holds, {id, body} each; the source returns a
\* prefix of them.  Ids repeat: duplicates are processed independently,
\* each to the path "post {id}.txt" of its id.
Feed ==
  << [id |-> 1, body |-> "a"], [id |-> 2, body |-> "b"],
     [id |-> 2, body |-> "c"], [id |-> 1, body |-> "d"] >>

Ids == { Feed[i].id : i \in 1..Len(Feed) }

Min(a, b) == IF a < b THEN a ELSE b

\* s[:n]
Take(s, n) == SubSeq(s, 1, Min(Len(s), n))

\* File and editor-buffer contents.
Absent == "absent"       \* no file at the path
Old == "old"             \* content of a file that pre-dates the run
Default == "default"     \* what a freshly started editor shows
Partial == "partial"     \* a proper prefix of the body: empty after the
                         \* select-all + delete, more if the text run stops

\* ------------------------------------------------------ exception classes
NoExc == [cls |-> "none", site |-> "none"]
Raised(c, s) == [cls |-> c, site |-> s]

\* pywinauto.timings.TimeoutError derives from RuntimeError; the other
\* imported classes derive from Exception directly.
IsInstance(c, classes) ==
  \/ c \in classes
  \/ c = "PywinautoTimeoutError" /\ "RuntimeError" \in classes

\* except (ElementNotFoundError, PywinautoTimeoutError, RuntimeError)
LaunchRetryable == { "ElementNotFoundError", "PywinautoTimeoutError", "RuntimeError" }

\* Classes the two calls of launch's try block can raise: the ones the
\* except clauses name, AppStartError from the call that starts the
\* executable, and the imported ProcessNotFoundError from the call that
\* looks the process up.
StartFaults == LaunchRetryable \cup { "AppStartError" }
ConnectFaults == LaunchRetryable \cup { "ProcessNotFoundError" }

\* What fetch_posts can raise: requests' errors, which its except clause
\* names, and a TypeError of posts[:limit] on a body that is no list.
FetchFaults == { "RequestException", "TypeError" }

\* Classes the window calls of the type step can raise.
TypeFaults == { "ElementNotFoundError", "PywinautoTimeoutError", "RuntimeError" }

\* except (ElementNotFoundError, PywinautoTimeoutError)
TypeSoft == { "ElementNotFoundError", "PywinautoTimeoutError" }

VARIABLES
  source,     \* what the record source holds (input)
  files,      \* sink directory: id -> content of "post {id}.txt"
  stray,      \* editor windows open that the run did not start
  pc,         \* position in main() and its callees
  posts,      \* main's local: the fetched records
  idx,        \* 1-based position of the for loop in posts
  attempt,    \* launch_notepad_with_retry's loop variable
  todo,       \* close_all_open_notepads: windows left to iterate
  live,       \* editor processes started by the run and still open
  buffer,     \* text in the editor of the current session
  dialog,     \* "none", "saveas" or "prompt": modal dialog of the editor
  exc,        \* exception in flight
  exitCode,   \* main's return value, -1 while running
  log,        \* the last log line: [level, msg, arg]
  cur,        \* history of the record being processed
  outcome,    \* history: how each record taken ended: "ok" (process_post
              \* returned), "notinstalled" (it raised AppStartError), "failed"
  fatal,      \* history: a fatal condition was raised by the environment
  abortedAt,  \* history: position of the record whose launch raised
              \* AppStartError, 0 if none did
  cleanups,   \* history: calls of close_all_open_notepads in this run
  clean,      \* history: every record ended so far in this run had its
              \* body typed in full and its save completed
  run,        \* which run of main() this is: 1, or 2 after a second start
  first       \* history: [files, clean] at the end of the first run,
              \* NoFirst during it

vars ==
  << source, files, stray, pc, posts, idx, attempt, todo, live, buffer,
     dialog, exc, exitCode, log, cur, outcome, fatal, abortedAt,
     cleanups, clean, run, first >>

NoFirst == [files |-> << >>, clean |-> FALSE]

Line(level, msg, arg) == [level |-> level, msg |-> msg, arg |-> arg]

\* History of one record, reset when the loop takes the record.
NewCur ==
  [ launchErr |-> "none",    \* class whose handling ended the launch
    launched |-> FALSE,      \* launch returned an app
    resolveFailed |-> FALSE, \* a window call of the type step raised
    typed |-> "none",        \* "none", "ok", "soft", "hard"
    removeFailed |-> FALSE,  \* os.remove of the old file raised OSError
    saveRuns |-> 0,          \* runs of _save_via_keystrokes
    saveDone |-> FALSE,      \* save_notepad_content returned
    wrote |-> FALSE,         \* the editor wrote the record's file
    strayAltY |-> FALSE,     \* Alt+Y sent with no prompt showing
    closes |-> 0,            \* close_notepad calls
    closeFailed |-> FALSE,   \* the close call raised
    stepErr |-> NoExc ]      \* what launch/type/save raised out of the step


Init ==
  /\ source \in { Take(Feed, n) : n \in 0..MaxRecords }
  /\ files \in [Ids -> {Absent, Old}]
  /\ stray \in 0..MaxStray
  /\ pc = "main"
  /\ posts = << >>
  /\ idx = 0
  /\ attempt = 0
  /\ todo = 0
  /\ live = 0
  /\ buffer = Default
  /\ dialog = "none"
  /\ exc = NoExc
  /\ exitCode = -1
  /\ log = Line("none", "none", 0)
  /\ cur = NewCur
  /\ outcome = << >>
  /\ fatal = FALSE
  /\ abortedAt = 0
  /\ cleanups = 0
  /\ clean = TRUE
  /\ run = 1
  /\ first = NoFirst

\* ------------------------------------------------------------------ main
\* configure_logging(); output_dir = ensure_output_dir()
EnsureOutputDir ==
  /\ pc = "main"
  /\ \/ /\ pc' = "fetch"
        /\ UNCHANGED << exc, fatal >>
     \/ /\ exc' = Raised("OSError", "ensure_output_dir")
        /\ fatal' = TRUE
        /\ pc' = "outer_except"
  /\ UNCHANGED << source, files, stray, posts, idx, attempt, todo, live, buffer,
                  dialog, exitCode, log, cur, outcome, abortedAt >>
  /\ UNCHANGED << cleanups, clean, run, first >>

\* FetchHandler with "return []" in place of the raise.
FetchHandlerEmpty(c) ==
  IF IsInstance(c, {"RequestException"}) THEN "empty" ELSE "uncaught"

\* except requests.RequestException as exc: logging.error(...); raise
FetchHandler(c) ==
  IF IsInstance(c, {"RequestException"}) THEN "reraise" ELSE "uncaught"

\* posts = fetch_posts(limit=10)
FetchPosts ==
  /\ pc = "fetch"
  /\ \/ /\ posts' = Take(source, Limit)
        /\ pc' = "cleanup"
        /\ UNCHANGED << exc, fatal, log >>
     \/ \E c \in FetchFaults :
          /\ IF FetchHandler(c) = "uncaught"
               THEN UNCHANGED log
               ELSE log' = Line("error", "Failed to fetch posts", 0)
          /\ IF FetchHandler(c) = "empty"
               THEN /\ posts' = << >>
                    /\ pc' = "cleanup"
                    /\ UNCHANGED << exc, fatal >>
               ELSE /\ exc' = Raised(c, "fetch_posts")
                    /\ fatal' = TRUE
                    /\ pc' = "outer_except"
                    /\ UNCHANGED posts
  /\ UNCHANGED << source, files, stray, idx, attempt, todo, live, buffer,
                  dialog, exitCode, cur, outcome, abortedAt >>
  /\ UNCHANGED << cleanups, clean, run, first >>

\* CleanupHandler without the except clauses.
CleanupHandlerPropagate(c) == "propagate"

\* except Exception: around each dlg.close() and around the whole function
CleanupHandler(c) == "swallow"

\* What raised class c in close_all_open_notepads leads to, the handler
\* logging line when it swallows.
CleanupRaise(c, line, next) ==
  IF CleanupHandler(c) = "swallow"
    THEN /\ log' = line
         /\ pc' = next
         /\ UNCHANGED << exc, fatal >>
    ELSE /\ exc' = Raised(c, "cleanup")
         /\ fatal' = TRUE
         /\ pc' = "outer_except"
         /\ UNCHANGED log

\* close_all_open_notepads(): connect to a running editor
CleanupConnect ==
  /\ pc = "cleanup"
  /\ cleanups' = cleanups + 1
  /\ \/ /\ stray > 0
        /\ todo' = stray
        /\ pc' = "cleanup_loop"
        /\ UNCHANGED << log, exc, fatal >>
     \/ /\ CleanupRaise("ProcessNotFoundError",
                        Line("info", "No Notepad running", 0), "loop")
        /\ UNCHANGED todo
  /\ UNCHANGED << source, files, stray, posts, idx, attempt, live, buffer,
                  dialog, exitCode, cur, outcome, abortedAt >>
  /\ UNCHANGED << clean, run, first >>

\* for dlg in apps.windows(): dlg.close()
CleanupCloseWindow ==
  /\ pc = "cleanup_loop"
  /\ IF todo = 0
       THEN /\ pc' = "loop"
            /\ UNCHANGED << todo, stray, log, exc, fatal >>
       ELSE /\ todo' = todo - 1
            /\ \/ /\ stray' = stray - 1
                  /\ UNCHANGED << log, pc, exc, fatal >>
               \/ /\ CleanupRaise("Exception",
                       Line("warning", "Failed to close a Notepad window", 0),
                       "cleanup_loop")
                  /\ UNCHANGED stray
  /\ UNCHANGED << source, files, posts, idx, attempt, live, buffer,
                  dialog, exitCode, cur, outcome, abortedAt >>
  /\ UNCHANGED << cleanups, clean, run, first >>

\* for post in posts: process_post(output_dir, post) up to the launch call;
\* after the last record: log the completion line and return 0.
LoopHead ==
  /\ pc = "loop"
  /\ IF idx < Len(posts)
       THEN /\ idx' = idx + 1
            /\ cur' = NewCur
            /\ attempt' = 1
            /\ buffer' = Default
            /\ dialog' = "none"
            /\ pc' = "launch_start"
            /\ UNCHANGED << exitCode, log >>
       ELSE /\ log' = Line("info", "Completed generating posts", Len(posts))
            /\ exitCode' = 0
            /\ pc' = "done"
            /\ UNCHANGED << idx, cur, attempt, buffer, dialog >>
  /\ UNCHANGED << source, files, stray, posts, todo, live, exc, outcome, fatal, abortedAt >>
  /\ UNCHANGED << cleanups, clean, run, first >>

\* ---------------------------------------------- launch_notepad_with_retry
\* LaunchHandler with AppStartError handled by the retrying clause.
LaunchHandlerRetryAll(c, a) ==
  IF c = "AppStartError" \/ IsInstance(c, LaunchRetryable)
    THEN IF a < MaxAttempts THEN "retry" ELSE "exhausted"
    ELSE "propagate"

\* LaunchHandler in a loop that has no last attempt.
LaunchHandlerNoLimit(c, a) ==
  IF c = "AppStartError" THEN "notinstalled"
  ELSE IF IsInstance(c, LaunchRetryable) THEN "retry" ELSE "propagate"

\* The except clauses of the retry loop, for class c raised on attempt a.
LaunchHandler(c, a) ==
  IF c = "AppStartError" THEN "notinstalled"
  ELSE IF IsInstance(c, LaunchRetryable)
    THEN IF a < MaxAttempts THEN "retry" ELSE "exhausted"
    ELSE "propagate"

\* The try block raised class c: run the handler, then either loop or leave
\* launch (process_post has no handler around the launch call, so the
\* exception reaches main's handlers directly).  h is cur with this
\* attempt's history added.
LaunchFail(c, h) ==
  LET r == LaunchHandler(c, attempt)
      e == CASE r = "notinstalled" -> Raised("AppStartError", "launch")
             [] r = "exhausted" -> Raised("RuntimeError", "launch_exhausted")
             [] r = "propagate" -> Raised(c, "launch")
             [] OTHER -> NoExc
  IN /\ fatal' = (fatal \/ c = "AppStartError")
     /\ abortedAt' = IF c = "AppStartError" THEN idx ELSE abortedAt
     /\ exc' = e
     /\ cur' = IF r = "retry" THEN h ELSE [h EXCEPT !.launchErr = c, !.stepErr = e]
     /\ IF r = "retry"
          THEN /\ attempt' = attempt + 1
               /\ pc' = "launch_start"
          ELSE /\ pc' = "main_except"
               /\ UNCHANGED attempt
     /\ IF r \in {"retry", "exhausted"}
          THEN log' = Line("warning", "Notepad launch failed on attempt", attempt)
          ELSE UNCHANGED log

\* app = Application(backend="uia").start("notepad.exe")
LaunchStart ==
  /\ pc = "launch_start"
  /\ \/ /\ live < MaxLive
        /\ live' = live + 1
        /\ pc' = "launch_connect"
        /\ UNCHANGED << attempt, exc, log, cur, fatal, abortedAt >>
     \/ /\ \E c \in StartFaults : LaunchFail(c, cur)
        /\ UNCHANGED live
  /\ UNCHANGED << source, files, stray, posts, idx, todo, buffer, dialog,
                  exitCode, outcome >>
  /\ UNCHANGED << cleanups, clean, run, first >>

\* time.sleep(0.1); app.connect(path="notepad.exe"); return app
\* A process that start created stays open when connect raises.
LaunchConnect ==
  /\ pc = "launch_connect"
  /\ \/ /\ log' = Line("info", "Notepad launched", attempt)
        /\ cur' = [cur EXCEPT !.launched = TRUE]
        /\ attempt' = 0
        /\ pc' = "type_top_window"
        /\ UNCHANGED << exc, fatal, abortedAt >>
     \/ \E c \in ConnectFaults : LaunchFail(c, cur)
  /\ UNCHANGED << source, files, stray, posts, idx, todo, live, buffer, dialog,
                  exitCode, outcome >>
  /\ UNCHANGED << cleanups, clean, run, first >>

\* ------------------------------------------------- type_text_into_notepad
\* except (ElementNotFoundError, PywinautoTimeoutError): log a warning
TypeHandler(c) == IF IsInstance(c, TypeSoft) THEN "soft" ELSE "propagate"

\* AfterTypeRaise with the error dropped and process_post going on.
AfterTypeRaiseGoOn == "save_makedirs"

\* Where process_post is after type_text_into_notepad raised: out of the
\* try block, in the finally clause.
AfterTypeRaise == "close"

\* A call above the try block raised class c: it leaves the type step and
\* process_post's try, into the finally clause.
TypeRaise(c) ==
  /\ exc' = Raised(c, "type")
  /\ cur' = [cur EXCEPT !.typed = "hard", !.stepErr = Raised(c, "type"),
                        !.resolveFailed = (c \in TypeSoft)]
  /\ pc' = AfterTypeRaise
  /\ UNCHANGED log

\* A call inside the try block raised class c; resolving tells whether the
\* call is the one that resolves the window (set_focus).
TypeTryRaise(c, resolving) ==
  IF TypeHandler(c) = "soft"
    THEN /\ log' = Line("warning", "failed to type text into notepad", 0)
         /\ cur' = [cur EXCEPT !.typed = "soft",
                               !.resolveFailed = (@ \/ resolving)]
         /\ pc' = "save_makedirs"
         /\ UNCHANGED exc
    ELSE /\ exc' = Raised(c, "type")
         /\ cur' = [cur EXCEPT !.typed = "hard", !.stepErr = Raised(c, "type")]
         /\ pc' = AfterTypeRaise
         /\ UNCHANGED log

\* dlg = app.top_window()
TypeTopWindow ==
  /\ pc = "type_top_window"
  /\ \/ /\ pc' = "type_wait"
        /\ UNCHANGED << exc, cur, log >>
     \/ \E c \in TypeFaults : TypeRaise(c)
  /\ UNCHANGED << source, files, stray, posts, idx, attempt, todo, live, buffer,
                  dialog, exitCode, outcome, fatal, abortedAt >>
  /\ UNCHANGED << cleanups, clean, run, first >>

\* dlg.wait("ready", timeout=3)
TypeWaitReady ==
  /\ pc = "type_wait"
  /\ \/ /\ pc' = "type_focus"
        /\ UNCHANGED << exc, cur, log >>
     \/ \E c \in TypeFaults : TypeRaise(c)
  /\ UNCHANGED << source, files, stray, posts, idx, attempt, todo, live, buffer,
                  dialog, exitCode, outcome, fatal, abortedAt >>
  /\ UNCHANGED << cleanups, clean, run, first >>

\* try: dlg.set_focus(); time.sleep(0.1)
TypeSetFocus ==
  /\ pc = "type_focus"
  /\ \/ /\ pc' = "type_clear"
        /\ UNCHANGED << exc, cur, log >>
     \/ \E c \in TypeFaults : TypeTryRaise(c, TRUE)
  /\ UNCHANGED << source, files, stray, posts, idx, attempt, todo, live, buffer,
                  dialog, exitCode, outcome, fatal, abortedAt >>
  /\ UNCHANGED << cleanups, clean, run, first >>

\* send_keys('^a{DEL}'); time.sleep(0.1)
TypeClear ==
  /\ pc = "type_clear"
  /\ \/ /\ buffer' = Partial
        /\ pc' = "type_text"
        /\ UNCHANGED << exc, cur, log >>
     \/ /\ \E c \in TypeFaults : TypeTryRaise(c, FALSE)
        /\ UNCHANGED buffer
  /\ UNCHANGED << source, files, stray, posts, idx, attempt, todo, live,
                  dialog, exitCode, outcome, fatal, abortedAt >>
  /\ UNCHANGED << cleanups, clean, run, first >>

\* send_keys(text, with_spaces=True, with_newlines=True, pause=0.05)
TypeText ==
  /\ pc = "type_text"
  /\ \/ /\ buffer' = posts[idx].body
        /\ cur' = [cur EXCEPT !.typed = "ok"]
        /\ pc' = "save_makedirs"
        /\ UNCHANGED << exc, log >>
     \/ /\ \E c \in TypeFaults : TypeTryRaise(c, FALSE)
        /\ UNCHANGED buffer
  /\ UNCHANGED << source, files, stray, posts, idx, attempt, todo, live,
                  dialog, exitCode, outcome, fatal, abortedAt >>
  /\ UNCHANGED << cleanups, clean, run, first >>

\* --------------------------------------------------- save_notepad_content
\* A statement of save_notepad_content raised class c outside the swallowed
\* os.remove: it leaves the save step, into process_post's finally clause.
SaveRaise(c) ==
  /\ exc' = Raised(c, "save")
  /\ cur' = [cur EXCEPT !.stepErr = Raised(c, "save")]
  /\ pc' = "close"

\* try: _save_via_keystrokes() except Exception as exc2: log the error; raise
SaveHandler(c) == "propagate"

\* A send_keys of _save_via_keystrokes raised class c, h being cur with the
\* run's history added.
SaveKeysRaise(c, h) ==
  /\ SaveHandler(c) = "propagate"
  /\ log' = Line("error", "Keystroke save failed on retry", 0)
  /\ exc' = Raised(c, "save_keys")
  /\ cur' = [h EXCEPT !.stepErr = Raised(c, "save_keys")]
  /\ pc' = "close"

\* os.makedirs(os.path.dirname(full_path), exist_ok=True)
SaveMakedirs ==
  /\ pc = "save_makedirs"
  /\ \/ /\ pc' = "save_remove"
        /\ UNCHANGED << exc, cur >>
     \/ SaveRaise("OSError")
  /\ UNCHANGED << source, files, stray, posts, idx, attempt, todo, live, buffer,
                  dialog, exitCode, log, outcome, fatal, abortedAt >>
  /\ UNCHANGED << cleanups, clean, run, first >>

\* RemoveOld with the os.remove call left out.
RemoveOldKeep(f, i) == f

\* os.remove(full_path): the file of identifier i is gone from the sink f.
RemoveOld(f, i) == [f EXCEPT ![i] = Absent]

\* if os.path.exists(full_path): try: os.remove(full_path) except OSError: pass
SaveRemoveOld ==
  /\ pc = "save_remove"
  /\ IF files[posts[idx].id] # Absent
       THEN \/ /\ files' = RemoveOld(files, posts[idx].id)
               /\ UNCHANGED cur
            \/ /\ cur' = [cur EXCEPT !.removeFailed = TRUE]
               /\ UNCHANGED files
       ELSE UNCHANGED << files, cur >>
  /\ pc' = "save_open_dialog"
  /\ UNCHANGED << source, stray, posts, idx, attempt, todo, live, buffer,
                  dialog, exc, exitCode, log, outcome, fatal, abortedAt >>
  /\ UNCHANGED << cleanups, clean, run, first >>

\* send_keys("^+s"); time.sleep(0.5)
SaveOpenDialog ==
  /\ pc = "save_open_dialog"
  /\ \/ /\ dialog' = "saveas"
        /\ cur' = [cur EXCEPT !.saveRuns = @ + 1]
        /\ pc' = "save_type_path"
        /\ UNCHANGED << exc, log >>
     \/ /\ SaveKeysRaise("Exception", [cur EXCEPT !.saveRuns = @ + 1])
        /\ UNCHANGED dialog
  /\ UNCHANGED << source, files, stray, posts, idx, attempt, todo, live, buffer,
                  exitCode, outcome, fatal, abortedAt >>
  /\ UNCHANGED << cleanups, clean, run, first >>

\* send_keys(full_path, with_spaces=True); time.sleep(0.5)
SaveTypePath ==
  /\ pc = "save_type_path"
  /\ \/ /\ pc' = "save_confirm"
        /\ UNCHANGED << exc, cur, log >>
     \/ SaveKeysRaise("Exception", cur)
  /\ UNCHANGED << source, files, stray, posts, idx, attempt, todo, live, buffer,
                  dialog, exitCode, outcome, fatal, abortedAt >>
  /\ UNCHANGED << cleanups, clean, run, first >>

\* WriteFile with the editor adding to the file that is there.
WriteFileMerge(f, i, buf) ==
  [f EXCEPT ![i] = IF @ = Absent THEN buf ELSE "merged"]

\* The editor saves its buffer buf to the path of identifier i: the file
\* then holds the buffer and nothing else.
WriteFile(f, i, buf) == [f EXCEPT ![i] = buf]

\* send_keys("{ENTER}"); time.sleep(0.5): the editor writes the buffer to the
\* path, or asks to confirm the overwrite when a file is there.
SaveConfirm ==
  /\ pc = "save_confirm"
  /\ \/ /\ IF files[posts[idx].id] = Absent
             THEN /\ files' = WriteFile(files, posts[idx].id, buffer)
                  /\ cur' = [cur EXCEPT !.wrote = TRUE]
                  /\ dialog' = "none"
             ELSE /\ dialog' = "prompt"
                  /\ UNCHANGED << files, cur >>
        /\ pc' = "save_affirm"
        /\ UNCHANGED << exc, log >>
     \/ /\ SaveKeysRaise("Exception", cur)
        /\ UNCHANGED << files, dialog >>
  /\ UNCHANGED << source, stray, posts, idx, attempt, todo, live, buffer,
                  exitCode, outcome, fatal, abortedAt >>
  /\ UNCHANGED << cleanups, clean, run, first >>

\* send_keys("%y"); time.sleep(0.5); back in process_post:
\* logging.info("Saved: %s", full_path)
SaveAffirmOverwrite ==
  /\ pc = "save_affirm"
  /\ \/ /\ IF dialog = "prompt"
             THEN /\ files' = WriteFile(files, posts[idx].id, buffer)
                  /\ dialog' = "none"
                  /\ cur' = [cur EXCEPT !.saveDone = TRUE, !.wrote = TRUE]
             ELSE /\ cur' = [cur EXCEPT !.saveDone = TRUE, !.strayAltY = TRUE]
                  /\ UNCHANGED << files, dialog >>
        /\ log' = Line("info", "Saved", posts[idx].id)
        /\ pc' = "close"
        /\ UNCHANGED exc
     \/ /\ SaveKeysRaise("Exception", cur)
        /\ UNCHANGED << files, dialog >>
  /\ UNCHANGED << source, stray, posts, idx, attempt, todo, live, buffer,
                  exitCode, outcome, fatal, abortedAt >>
  /\ UNCHANGED << cleanups, clean, run, first >>

\* ------------------------------------------------------------ close_notepad
\* CloseHandler without the except clause.
CloseHandlerPropagate(c) == "propagate"

\* except Exception as exc: logging.warning("Failed to close Notepad cleanly")
CloseHandler(c) == "swallow"

\* finally: close_notepad(app), then leave process_post: with the exception
\* in flight if there is one, else back to the loop with the record done.
CloseNotepad ==
  /\ pc = "close"
  /\ \E failed \in BOOLEAN :
       LET e == IF failed /\ CloseHandler("Exception") # "swallow"
                  THEN Raised("Exception", "close")
                  ELSE exc
       IN /\ cur' = [cur EXCEPT !.closes = @ + 1, !.closeFailed = failed]
          /\ IF failed
               THEN /\ UNCHANGED << live, dialog >>
                    /\ IF CloseHandler("Exception") = "swallow"
                         THEN log' = Line("warning", "Failed to close Notepad cleanly", 0)
                         ELSE UNCHANGED log
               ELSE /\ live' = live - 1
                    /\ dialog' = "none"
                    /\ UNCHANGED log
          /\ exc' = e
          /\ clean' = (clean /\ cur.typed = "ok" /\ e = NoExc)
          /\ IF e = NoExc
               THEN /\ outcome' = Append(outcome, "ok")
                    /\ pc' = "loop"
               ELSE /\ pc' = "main_except"
                    /\ UNCHANGED outcome
  /\ UNCHANGED << source, files, stray, posts, idx, attempt, todo, buffer,
                  exitCode, fatal, abortedAt >>
  /\ UNCHANGED << cleanups, run, first >>

\* --------------------------------------------------------- main's handlers
\* MainHandler with the AppStartError clause continuing like the other.
MainHandlerContinue(c) == "continue"

\* MainHandler with the generic clause returning like the AppStartError one.
MainHandlerAbort(c) == "return1"

\* except AppStartError: return 1;  except Exception: continue
MainHandler(c) == IF c = "AppStartError" THEN "return1" ELSE "continue"

\* An exception left process_post.
MainExcept ==
  /\ pc = "main_except"
  /\ IF MainHandler(exc.cls) = "return1"
       THEN /\ log' = Line("error", "Notepad is not installed or not in the path", 0)
            /\ exitCode' = 1
            /\ pc' = "done"
       ELSE /\ log' = Line("error", "Failed to process post", posts[idx].id)
            /\ pc' = "loop"
            /\ UNCHANGED exitCode
  /\ outcome' = Append(outcome, IF exc.cls = "AppStartError" THEN "notinstalled"
                                                              ELSE "failed")
  /\ exc' = NoExc
  /\ clean' = FALSE
  /\ UNCHANGED << source, files, stray, posts, idx, attempt, todo, live, buffer,
                  dialog, cur, fatal, abortedAt >>
  /\ UNCHANGED << cleanups, run, first >>

\* OuterHandler returning the success code.
OuterHandlerZero(c) == 0

\* except Exception as exc: logging.exception("Fatal error"); return 1
OuterHandler(c) == 1

\* An exception was raised in main's try block outside the loop body.
OuterExcept ==
  /\ pc = "outer_except"
  /\ log' = Line("error", "Fatal error", 0)
  /\ exitCode' = OuterHandler(exc.cls)
  /\ exc' = NoExc
  /\ pc' = "done"
  /\ UNCHANGED << source, files, stray, posts, idx, attempt, todo, live, buffer,
                  dialog, cur, outcome, fatal, abortedAt >>
  /\ UNCHANGED << cleanups, clean, run, first >>

Next ==
  \/ EnsureOutputDir
  \/ FetchPosts
  \/ CleanupConnect
  \/ CleanupCloseWindow
  \/ LoopHead
  \/ LaunchStart
  \/ LaunchConnect
  \/ TypeTopWindow
  \/ TypeWaitReady
  \/ TypeSetFocus
  \/ TypeClear
  \/ TypeText
  \/ SaveMakedirs
  \/ SaveRemoveOld
  \/ SaveOpenDialog
  \/ SaveTypePath
  \/ SaveConfirm
  \/ SaveAffirmOverwrite
  \/ CloseNotepad
  \/ MainExcept
  \/ OuterExcept

Spec == Init /\ [][Next]_vars

\* ------------------------------------------------------------- second run
\* sys.exit(main()) has ended with the batch run to its end (main returned
\* 0) and the program is started again on the same source and the same sink.
\* Editors the first run left open are stray windows for the second (as many
\* of them as the model keeps track of).
Rerun ==
  /\ pc = "done"
  /\ exitCode = 0
  /\ run = 1
  /\ run' = 2
  /\ first' = [files |-> files, clean |-> clean]
  /\ stray' = Min(stray + live, MaxStray)
  /\ live' = 0
  /\ pc' = "main"
  /\ posts' = << >>
  /\ idx' = 0
  /\ attempt' = 0
  /\ todo' = 0
  /\ buffer' = Default
  /\ dialog' = "none"
  /\ exc' = NoExc
  /\ exitCode' = -1
  /\ log' = Line("none", "none", 0)
  /\ cur' = NewCur
  /\ outcome' = << >>
  /\ fatal' = FALSE
  /\ abortedAt' = 0
  /\ cleanups' = 0
  /\ clean' = TRUE
  /\ UNCHANGED << source, files >>

NextTwice ==
  \/ Next
  \/ Rerun

\* The runs that are followed by a second one have at most MaxRerun records.
InitTwice ==
  /\ Init
  /\ Len(source) <= MaxRerun

SpecTwice == InitTwice /\ [][NextTwice]_vars

\* ---------------------------------------------------------------- fairness
\* main() is one sequential thread: every call it makes returns or raises,
\* so the run keeps taking its next step for as long as it has one.
FairSpec == Spec /\ WF_vars(Next)

\* ================================================================ claims
Done == pc = "done"

\* A record has ended and the loop has not taken the next one yet.
BetweenRecords == pc = "loop" /\ idx >= 1

\* C1: main() returns 0 exactly when the loop ran to the end of the record
\* sequence, whatever the number of per-record failures, and returns 1
\* exactly when a fatal condition occurred (a fault before the loop, or the
\* editor executable not startable).
ExitCodeMatchesRun ==
  Done =>
    IF fatal
      THEN /\ exitCode = 1
           /\ \/ outcome = << >>
              \/ /\ abortedAt = Len(outcome)
                 /\ outcome[abortedAt] = "notinstalled"
      ELSE /\ exitCode = 0
           /\ posts = Take(source, Limit)
           /\ Len(outcome) = Len(posts)
           /\ \A i \in 1..Len(outcome) : outcome[i] \in {"ok", "failed"}

\* C1 witness: a run in which every one of three records failed returned 0.
AllFailedStillZero ==
  /\ Done
  /\ exitCode = 0
  /\ Len(outcome) = 3
  /\ \A i \in 1..3 : outcome[i] = "failed"

\* C2: once the launch of record k has raised AppStartError, no step of any
\* kind follows: the run is in main's handler or has returned, no later
\* record is taken, record k has had no type, save or close step and no
\* file written, and the return value is 1.
NotInstalledAbortsBatch ==
  abortedAt # 0 =>
    /\ pc \in {"main_except", "done"}
    /\ idx = abortedAt
    /\ cur.typed = "none" /\ cur.saveRuns = 0 /\ cur.closes = 0
    /\ ~cur.wrote /\ ~cur.saveDone
    /\ Done => exitCode = 1

\* C2 witness: the launch of the second of three records raised
\* AppStartError and the run has returned 1.
AbortedOnSecondOfThree ==
  /\ Done
  /\ abortedAt = 2
  /\ Len(posts) = 3
  /\ exitCode = 1

\* C3 as stated: after a record k that failed with an error other than
\* not-installed, every later record is attempted, and the file of every
\* later record whose save completed is present at the end of the run.
FailureNeverStopsLaterRecords ==
  Done =>
    \A k \in 1..Len(outcome) :
      outcome[k] = "failed" =>
        \A j \in (k + 1)..Len(posts) :
          /\ j <= idx
          /\ (j <= Len(outcome) /\ outcome[j] = "ok")
               => files[posts[j].id] # Absent

\* C3, amended: after a record k that failed with an error other than
\* not-installed, every later record is attempted unless the launch of a
\* record between them raised AppStartError, and the file of a later record
\* whose save completed is present at the end of the run unless a record
\* with the same id, taken after it, failed.
FailureIsolatedPerRecord ==
  Done =>
    \A k \in 1..Len(outcome) :
      outcome[k] = "failed" =>
        \A j \in (k + 1)..Len(posts) :
          /\ (abortedAt = 0 \/ j <= abortedAt) => j <= idx
          /\ ( /\ j <= Len(outcome)
               /\ outcome[j] = "ok"
               /\ \A m \in (j + 1)..Len(outcome) :
                    posts[m].id = posts[j].id => outcome[m] = "ok" )
               => files[posts[j].id] # Absent

\* C3 witness: the first record failed, the third was saved and its file
\* holds its body at the end of the run.
LaterRecordSavedAfterFailure ==
  /\ Done
  /\ Len(outcome) = 3
  /\ outcome[1] = "failed"
  /\ outcome[3] = "ok"
  /\ files[posts[3].id] = posts[3].body

\* C4: a failure of the save keystroke sequence leaves save_notepad_content
\* only after the sequence has been run a second time.
SaveSequenceRetriedOnce ==
  exc.site = "save_keys" => cur.saveRuns = 2

\* C5: the process is started at most MaxAttempts times per record, and a
\* launch that fails with anything but not-installed has made MaxAttempts
\* attempts and fails with the launch-exhausted error.
LaunchRetriesUntilExhausted ==
  /\ attempt <= MaxAttempts
  /\ (pc = "main_except" /\ ~cur.launched /\ cur.launchErr # "AppStartError")
       => /\ attempt = MaxAttempts
          /\ exc = Raised("RuntimeError", "launch_exhausted")

\* C6: AppStartError in launch is never retried: on whichever attempt it is
\* raised, the run is then out of the launch loop for good and what left
\* launch is AppStartError, not the launch-exhausted error.
NotInstalledNeverRetried ==
  abortedAt # 0 =>
    /\ pc \notin {"launch_start", "launch_connect"}
    /\ ~cur.launched
    /\ cur.launchErr = "AppStartError"
    /\ cur.stepErr = Raised("AppStartError", "launch")
    /\ pc = "main_except" => exc = Raised("AppStartError", "launch")

\* C6 witness: AppStartError raised on the second attempt has left launch.
NotInstalledOnSecondAttempt ==
  /\ pc = "main_except"
  /\ abortedAt # 0
  /\ attempt = 2
  /\ exc.cls = "AppStartError"

\* C7: when a record has ended, in success or in failure, and before the
\* next launch begins, close_notepad has been called exactly once for it.
ClosedOnceBeforeNextRecord ==
  /\ cur.closes <= 1
  /\ BetweenRecords => cur.closes = 1

\* C8: at most one editor process started by the run is open at a time.
AtMostOneLiveEditor == live <= 1

\* C9: a failure of the close step changes nothing: what leaves process_post
\* is still the type or save failure, a record whose save completed still
\* ends as a success, one whose step failed still ends as failed, and the
\* run goes on to the next record (it returns only after the last one).
CloseFailureIsSoft ==
  cur.closeFailed =>
    /\ pc \in {"main_except", "loop", "done"}
    /\ pc = "main_except" => exc = cur.stepErr /\ exc.site \in {"type", "save", "save_keys"}
    /\ pc \in {"loop", "done"} =>
         /\ Len(outcome) = idx
         /\ outcome[idx] = (IF cur.saveDone THEN "ok" ELSE "failed")
         /\ cur.saveDone <=> cur.stepErr = NoExc
    /\ Done => exitCode = 0 /\ idx = Len(posts)

\* C9 witness: the close of a saved record failed, the record ended as a
\* success and another record is still to come.
SavedRecordCloseFailed ==
  /\ BetweenRecords
  /\ cur.closeFailed
  /\ cur.saveDone
  /\ outcome[idx] = "ok"
  /\ idx < Len(posts)

\* C10: in the type step a window that is not found, or not ready within
\* the timeout, is a soft failure: the session does not fail in the type
\* step and goes on to the save step.
ResolveFailureIsSoft ==
  cur.resolveFailed =>
    /\ cur.typed = "soft"
    /\ cur.stepErr.site # "type"
    /\ pc # "close" \/ cur.stepErr.site \in {"save", "save_keys"} \/ cur.saveDone

\* The body of the last record with identifier i whose save completed.
RECURSIVE LastBody(_, _, _)
LastBody(ps, oc, i) ==
  IF ps = << >> THEN Absent
  ELSE LET k == Len(ps) IN
       IF ps[k].id = i /\ oc[k] = "ok"
         THEN ps[k].body
         ELSE LastBody(SubSeq(ps, 1, k - 1), SubSeq(oc, 1, k - 1), i)

\* C11: after a run that returns 0, the files the run wrote are exactly those
\* of the records whose session completed the save step, and each holds
\* exactly the body of the record that was saved to it, never an empty,
\* default or partially typed buffer.
SavedFilesHoldTheirBody ==
  (Done /\ exitCode = 0) =>
    \A i \in Ids :
      LET saved == {k \in 1..Len(posts) : posts[k].id = i /\ outcome[k] = "ok"}
      IN  /\ files[i] \notin {Absent, Old} <=> saved # {}
          /\ saved # {} => files[i] = LastBody(posts, outcome, i)

\* The save keystrokes of the current record are about to be, or are being,
\* issued and the editor has not been told to write yet.
SaveKeysPending == pc \in {"save_open_dialog", "save_type_path", "save_confirm"}

\* C12 as stated: a file already at the record's path is deleted before the
\* save keystrokes are issued, and once the record has been processed the
\* path holds neither the old content nor old content combined with new.
OldFileDeletedThenReplaced ==
  /\ SaveKeysPending => files[posts[idx].id] = Absent
  /\ BetweenRecords => files[posts[idx].id] \notin {Old, "merged"}

\* C12: a file already at the record's path is deleted before the save
\* keystrokes are issued unless os.remove raised OSError, and once the save
\* step of the record has completed the path holds exactly the buffer the
\* editor saved, so neither the old content nor old combined with new.
OldFileReplacedWhenSaved ==
  /\ (SaveKeysPending /\ ~cur.removeFailed) => files[posts[idx].id] = Absent
  /\ cur.saveDone =>
       /\ files[posts[idx].id] = buffer
       /\ files[posts[idx].id] \notin {Old, "merged"}

\* C12 witness: the old file could not be deleted, the overwrite was
\* confirmed and the path now holds the record's body.
UndeletedOldFileOverwritten ==
  /\ cur.saveDone
  /\ cur.removeFailed
  /\ cur.wrote
  /\ files[posts[idx].id] = posts[idx].body

\* The run ended, or is about to end, on a fault raised before the loop.
FaultBeforeLoop == fatal /\ abortedAt = 0

\* C13: a failing fetch is fatal: what fetch_posts raised is in main's outer
\* handler, and on a fault before the loop no editor has been started, the
\* stray-window clean-up has not run, no record has been taken, no file has
\* been written and main returns 1.
FetchFailureIsFatal ==
  /\ (exc.site = "fetch_posts" \/ log.msg = "Failed to fetch posts") =>
       /\ pc = "outer_except"
       /\ exc.site = "fetch_posts"
       /\ FaultBeforeLoop
  /\ FaultBeforeLoop =>
       /\ pc \in {"outer_except", "done"}
       /\ live = 0
       /\ cleanups = 0
       /\ todo = 0
       /\ posts = << >>
       /\ idx = 0
       /\ outcome = << >>
       /\ \A i \in Ids : files[i] \in {Absent, Old}
       /\ Done => exitCode = 1

\* C13 witness: the fetch of a non-empty source failed with stray windows
\* open, and nothing but main's outer handler is left to run.
FetchFailedWithWorkPending ==
  /\ pc = "outer_except"
  /\ exc = Raised("RequestException", "fetch_posts")
  /\ log.msg = "Failed to fetch posts"
  /\ Len(source) = MaxRecords
  /\ stray > 0

\* The step of a record that a log line names, "none" when it names none.
StepNamed(line) ==
  CASE line.msg = "Notepad launch failed on attempt" -> "launch"
    [] line.msg = "failed to type text into notepad" -> "type"
    [] line.msg = "Keystroke save failed on retry" -> "save"
    [] line.msg = "Failed to close Notepad cleanly" -> "close"
    [] OTHER -> "none"

\* The record a log line names, 0 when it names none: only the lines of
\* process_post and of the batch loop carry the record's path or identifier.
RecordNamed(line) ==
  IF line.msg \in {"Saved", "Failed to process post"} THEN line.arg ELSE 0

\* This step of the run catches an error raised in step s of the current
\* record: a launch attempt that is retried, a swallowed failure of the type
\* step, the swallowed OSError of os.remove or the logged failure of the save
\* keystrokes, a swallowed failure of close.
Caught(s) ==
  CASE s = "launch" -> pc \in {"launch_start", "launch_connect"} /\ attempt' = attempt + 1
    [] s = "type" -> cur.typed = "none" /\ cur'.typed = "soft"
    [] s = "save" -> \/ ~cur.removeFailed /\ cur'.removeFailed
                     \/ exc = NoExc /\ exc'.site = "save_keys"
    [] s = "close" -> ~cur.closeFailed /\ cur'.closeFailed

\* C14: every error caught while a record is processed (launch, type,
\* pre-delete, save, close) produces, in the step that catches it, a log line
\* that identifies the record and the failing step.
CaughtErrorsAreLogged ==
  [][ \A s \in {"launch", "type", "save", "close"} :
        Caught(s) => /\ StepNamed(log') = s
                     /\ RecordNamed(log') = posts[idx].id ]_vars

\* C15: close_all_open_notepads is called exactly once, after the fetch
\* and before the first record is taken, and it is best-effort: whether no
\* editor is running or a window fails to close, nothing is raised out of it
\* and the run is in, or on its way to, the batch loop.
StrayCleanupOnceBestEffort ==
  /\ cleanups <= 1
  /\ cleanups = 0 <=> (pc \in {"main", "fetch", "cleanup"} \/ FaultBeforeLoop)
  /\ idx >= 1 => cleanups = 1
  /\ pc \in {"cleanup", "cleanup_loop"} => idx = 0 /\ exc = NoExc /\ ~fatal
  /\ exc.site # "cleanup"
  /\ (cleanups = 1 /\ idx = 0) =>
       /\ pc \in {"cleanup_loop", "loop", "done"}
       /\ Done => posts = << >> /\ exitCode = 0

\* C15 witness: a stray window failed to close and the first record has
\* been taken all the same.
FirstRecordTakenDespiteStray ==
  /\ pc = "launch_start"
  /\ idx = 1
  /\ cleanups = 1
  /\ stray > 0
  /\ log.msg = "Failed to close a Notepad window"

LaunchPcs == {"launch_start", "launch_connect"}
TypePcs == {"type_top_window", "type_wait", "type_focus", "type_clear", "type_text"}
SavePcs == {"save_makedirs", "save_remove", "save_open_dialog",
            "save_type_path", "save_confirm", "save_affirm"}

\* C17: the steps of a record run in the order launch, type, save, close:
\* the type step runs only after launch returned an editor and before any
\* save or close; the save step runs only after the type step ended without
\* a hard failure and before any close; a record whose launch failed has no
\* type, save or close step; and nothing of the record runs after its
\* close.
StepsInOrder ==
  /\ pc \in LaunchPcs =>
       ~cur.launched /\ cur.typed = "none" /\ cur.saveRuns = 0 /\ cur.closes = 0
  /\ pc \in TypePcs =>
       cur.launched /\ cur.typed = "none" /\ cur.saveRuns = 0 /\ cur.closes = 0
  /\ pc \in SavePcs =>
       cur.launched /\ cur.typed \in {"ok", "soft"} /\ cur.closes = 0
  /\ pc = "close" =>
       cur.launched /\ cur.typed # "none" /\ cur.closes = 0
  /\ ~cur.launched =>
       /\ cur.typed = "none" /\ cur.saveRuns = 0 /\ ~cur.saveDone
       /\ ~cur.wrote /\ cur.closes = 0
  /\ cur.saveRuns > 0 => cur.typed \in {"ok", "soft"}
  /\ cur.closes > 0 => pc \in {"main_except", "loop", "done"}

\* C17 witness: a record went through all four steps, its type step having
\* failed softly, and has been closed.
AllFourStepsRan ==
  /\ BetweenRecords
  /\ cur.launched
  /\ cur.typed = "soft"
  /\ cur.saveDone
  /\ cur.closes = 1

\* C18: the Alt+Y keystroke is sent only when the overwrite prompt appeared:
\* no Alt+Y reaches the editor of a record whose save met no prompt.
AffirmOnlyOnPrompt == ~cur.strayAltY

\* C19: when the batch has run to its end, the number of posts the
\* completion line reports as generated is the number of records whose save
\* completed, which is at most the number of records processed.
ReportedCountIsSucceeded ==
  (Done /\ exitCode = 0) =>
    /\ log.msg = "Completed generating posts"
    /\ log.arg = Cardinality({k \in 1..Len(outcome) : outcome[k] = "ok"})
    /\ log.arg <= Len(posts)

\* C20: whatever the record sequence and the pattern of failures, the run
\* ends: main returns 0 or 1, having made at most MaxAttempts launch
\* attempts, one run of the save keystrokes and one close call per record.
RunTerminates ==
  /\ <>(Done /\ exitCode \in {0, 1})
  /\ [](/\ attempt <= MaxAttempts
        /\ cur.saveRuns <= 1
        /\ cur.closes <= 1
        /\ idx <= Len(posts))

\* C20 witness: the run has ended although every launch attempt of every
\* record of the longest batch failed.
EndedAfterEveryLaunchExhausted ==
  /\ Done
  /\ Len(posts) = MaxRecords
  /\ Len(outcome) = MaxRecords
  /\ \A k \in 1..MaxRecords : outcome[k] = "failed"
  /\ cur.stepErr = Raised("RuntimeError", "launch_exhausted")
  /\ attempt = MaxAttempts

====
